---- MODULE Spec2Model ----
(***************************************************************************)
(* MongoContents (src/mongocontents/mongocontents.py): a Jupyter contents *)
(* manager that keeps directories in a MongoDB collection with a unique   *)
(* index on 'path' and files/notebooks as GridFS versions keyed by        *)
(* filename.                                                              *)
(*                                                                        *)
(* Representation.  A path is a tuple of one-character strings            *)
(* (<<"/", "a">> is '/a').  A text is a tuple of code points, a blob a    *)
(* tuple of bytes.  Python's None is the string "None" wherever the value *)
(* is otherwise a string, and the record NoContent for a model's content. *)
(* Where MongoDB leaves the order of equal sort keys unspecified, an      *)
(* operator returns the SET of results the query can produce.             *)
(***************************************************************************)
EXTENDS Integers, Sequences, FiniteSets, TLC

VARIABLES
  directories,  \* the 'directories' collection, in insertion order
  files,        \* the GridFS 'files' collection (one record per version)
  now,          \* the latest clock reading stamped on a record
  last,         \* the last call made on the contents manager and what it returned
  calls         \* per caller, the call it is inside and the statement it is at

vars == <<directories, files, now, last, calls>>

\* ---------------------------------------------------------------- bounds
MaxDirs == 3       \* directory records the model lets the collection hold
MaxVersions == 2   \* GridFS versions the model lets the bucket hold

None == "None"

\* ------------------------------------------------------------ str helpers
Slash == "/"

StartsWith(s, pre) ==
  /\ Len(pre) <= Len(s)
  /\ SubSeq(s, 1, Len(pre)) = pre

\* str.rstrip('/')
RECURSIVE RStrip(_)
RStrip(s) ==
  IF s # <<>> /\ s[Len(s)] = Slash THEN RStrip(SubSeq(s, 1, Len(s) - 1)) ELSE s

\* str.lstrip('/')
RECURSIVE LStrip(_)
LStrip(s) ==
  IF s # <<>> /\ s[1] = Slash THEN LStrip(Tail(s)) ELSE s

\* str.strip('/')
Strip(s) == LStrip(RStrip(s))

\* index of the last '/' of s, 0 when it has none
LastSlash(s) ==
  LET at == {i \in 1..Len(s) : s[i] = Slash}
  IN  IF at = {} THEN 0 ELSE CHOOSE i \in at : \A j \in at : j <= i

\* os.path.basename
Basename(s) == SubSeq(s, LastSlash(s) + 1, Len(s))

\* os.path.join(a, b)
PathJoin(a, b) ==
  IF b # <<>> /\ b[1] = Slash THEN b
  ELSE IF a = <<>> \/ a[Len(a)] = Slash THEN a \o b
  ELSE a \o <<Slash>> \o b

\* ord() of the characters paths are built from
Ord(c) == CASE c = "/" -> 47 [] c = "a" -> 97 [] c = "b" -> 98 [] OTHER -> 0

\* Python's str ordering, s < t
RECURSIVE StrLess(_, _)
StrLess(s, t) ==
  IF t = <<>> THEN FALSE
  ELSE IF s = <<>> THEN TRUE
  ELSE IF Ord(s[1]) # Ord(t[1]) THEN Ord(s[1]) < Ord(t[1])
  ELSE StrLess(Tail(s), Tail(t))

\* ------------------------------------------------------------- PathCodec
path_prefix == <<Slash>>

normalize_path(path) == PathJoin(path_prefix, path)

\* (mutant: the prefix is not cut off)
denormalize_path_Keep(path) == path

denormalize_path(path) == SubSeq(path, Len(path_prefix) + 1, Len(path))

\* ---------------------------------------------------------------- codecs
\* str.encode(): UTF-8 of one code point / of a text
\* (mutant: the text is written one byte per code point, as latin-1 would)
Encode_Latin1(text) == text

EncodeChar(cp) ==
  IF cp < 128 THEN <<cp>>
  ELSE IF cp < 2048 THEN <<192 + (cp \div 64), 128 + (cp % 64)>>
  ELSE <<224 + (cp \div 4096), 128 + ((cp \div 64) % 64), 128 + (cp % 64)>>

RECURSIVE Encode(_)
Encode(text) ==
  IF text = <<>> THEN <<>> ELSE EncodeChar(text[1]) \o Encode(Tail(text))

IsCont(b) == b >= 128 /\ b < 192

\* bytes.decode(): [ok |-> FALSE] is UnicodeDecodeError
RECURSIVE Decode(_)
Decode(bytes) ==
  IF bytes = <<>> THEN [ok |-> TRUE, val |-> <<>>]
  ELSE
    LET b == bytes[1]
        n == IF b < 128 THEN 1
             ELSE IF b >= 194 /\ b < 224 THEN 2
             ELSE IF b >= 224 /\ b < 240 THEN 3
             ELSE 0
    IN  IF n = 0 \/ Len(bytes) < n \/ \E i \in 2..n : ~IsCont(bytes[i])
        THEN [ok |-> FALSE, val |-> <<>>]
        ELSE
          LET cp == IF n = 1 THEN b
                    ELSE IF n = 2 THEN (b - 192) * 64 + (bytes[2] - 128)
                    ELSE (b - 224) * 4096 + (bytes[2] - 128) * 64 + (bytes[3] - 128)
              rest == Decode(SubSeq(bytes, n + 1, Len(bytes)))
          IN  IF rest.ok /\ (n = 3 => cp >= 2048)
              THEN [ok |-> TRUE, val |-> <<cp>> \o rest.val]
              ELSE [ok |-> FALSE, val |-> <<>>]

\* A notebook document is modelled by a JSON array of one-digit numbers, the
\* tuple of its digits.  json.dumps writes '[' d ', ' d ... ']'.
RECURSIVE DumpItems(_)
DumpItems(doc) ==
  IF doc = <<>> THEN <<>>
  ELSE IF Len(doc) = 1 THEN <<48 + doc[1]>>
  ELSE <<48 + doc[1], 44, 32>> \o DumpItems(Tail(doc))

JsonDumps(doc) == <<91>> \o DumpItems(doc) \o <<93>>

IsDigit(c) == c >= 48 /\ c <= 57

\* the items of a JSON array body: digit (',' ' '* digit)*
RECURSIVE SkipSpaces(_)
SkipSpaces(t) == IF t # <<>> /\ t[1] = 32 THEN SkipSpaces(Tail(t)) ELSE t

RECURSIVE LoadItems(_)
LoadItems(t) ==
  IF t = <<>> \/ ~IsDigit(t[1]) THEN [ok |-> FALSE, val |-> <<>>]
  ELSE
    LET after == SkipSpaces(Tail(t))
    IN  IF after = <<>> THEN [ok |-> TRUE, val |-> <<t[1] - 48>>]
        ELSE IF after[1] # 44 THEN [ok |-> FALSE, val |-> <<>>]
        ELSE
          LET rest == LoadItems(SkipSpaces(Tail(after)))
          IN  IF rest.ok THEN [ok |-> TRUE, val |-> <<t[1] - 48>> \o rest.val]
              ELSE [ok |-> FALSE, val |-> <<>>]

\* json.loads of a text: [ok |-> FALSE] is JSONDecodeError
JsonLoads(text) ==
  IF Len(text) < 2 \/ text[1] # 91 \/ text[Len(text)] # 93
  THEN [ok |-> FALSE, val |-> <<>>]
  ELSE
    LET body == SkipSpaces(SubSeq(text, 2, Len(text) - 1))
    IN  IF body = <<>> THEN [ok |-> TRUE, val |-> <<>>] ELSE LoadItems(body)

\* json.load(file): the blob is decoded, then parsed
JsonLoad(bytes) ==
  LET text == Decode(bytes)
  IN  IF text.ok THEN JsonLoads(text.val) ELSE [ok |-> FALSE, val |-> <<>>]

\* ------------------------------------------------------- results of calls
NoContent == [tag |-> None, val |-> <<>>]

Absent == [kind |-> "absent"]                      \* the call returned None
Raised(e) == [kind |-> "error", error |-> e]       \* the call raised e
Returned(m) == [kind |-> "model", model |-> m]     \* the call returned model m
Done == [kind |-> "done"]                          \* a call that returns nothing

\* ---------------------------------------------------------- directories
\* self._directories.find_one({'path': path}): index of the record, 0 for None
find_one(dirs, path) ==
  LET at == {i \in 1..Len(dirs) : dirs[i].path = path}
  IN  IF at = {} THEN 0 ELSE CHOOSE i \in at : \A j \in at : i <= j

_dir_exists(dirs, path) == find_one(dirs, path) # 0

dir_exists(dirs, path) == _dir_exists(dirs, normalize_path(path))

\* (mutant: a record with the same path is replaced by the new one)
insert_one_Replace(dirs, doc) ==
  IF \E i \in 1..Len(dirs) : dirs[i].path = doc.path
  THEN [ok |-> TRUE,
        dirs |-> [i \in 1..Len(dirs) |-> IF dirs[i].path = doc.path THEN doc ELSE dirs[i]]]
  ELSE [ok |-> TRUE, dirs |-> Append(dirs, doc)]

\* (mutant: the collection has no unique index on 'path')
insert_one_NoIndex(dirs, doc) == [ok |-> TRUE, dirs |-> Append(dirs, doc)]

\* insert_one under the unique index on 'path' (create_index, line 72):
\* [ok |-> FALSE] is DuplicateKeyError and nothing is inserted
insert_one(dirs, doc) ==
  IF \E i \in 1..Len(dirs) : dirs[i].path = doc.path
  THEN [ok |-> FALSE, dirs |-> dirs]
  ELSE [ok |-> TRUE, dirs |-> Append(dirs, doc)]

\* (mutant: nothing is inserted)
_save_directory_Skip(dirs, path, t) == dirs

\* _save_directory: the duplicate key error is caught and logged
\* (mutant: the collection has no unique index on path)
_save_directory_Unindexed(dirs, path, t) ==
  Append(dirs, [path |-> path, created |-> t, last_modified |-> t])

_save_directory(dirs, path, t) ==
  insert_one(dirs, [path |-> path, created |-> t, last_modified |-> t]).dirs

\* ---------------------------------------------------------------- GridFS
Versions(fs, path) == {i \in 1..Len(fs) : fs[i].filename = path}

\* find({'filename': path}).sort('uploadDate', -1).limit(1): the versions the
\* query can return; versions with equal uploadDate come in no specified order
Latest(fs, path) ==
  {i \in Versions(fs, path) :
     \A j \in Versions(fs, path) : fs[j].uploadDate <= fs[i].uploadDate}

\* (mutant: the deleted flag is not looked at)
_get_file_gridout_KeepDeleted(fs, path) ==
  IF Versions(fs, path) = {} THEN {0} ELSE Latest(fs, path)

\* _get_file_gridout with ignore_deleted=True: the version indexes the call
\* can return, 0 for None
_get_file_gridout(fs, path) ==
  IF Versions(fs, path) = {} THEN {0}
  ELSE {IF fs[i].metadata.deleted THEN 0 ELSE i : i \in Latest(fs, path)}

\* _file_exists: the answers the call can give
_file_exists(fs, path) == {g # 0 : g \in _get_file_gridout(fs, path)}

file_exists(fs, path) == _file_exists(fs, normalize_path(path))

\* the document after $set of metadata.key for each key of kwargs, and of
\* filename unless it is None
Updated(doc, filename, kwargs) ==
  [doc EXCEPT !.filename = IF filename = None THEN @ ELSE filename,
              !.metadata = [k \in DOMAIN @ |->
                              IF k \in DOMAIN kwargs THEN kwargs[k] ELSE @[k]]]

\* (mutant: the update is written as a new version, the latest one is kept)
_update_file_metadata_Append(fs, path, filename, kwargs) ==
  {Append(fs, Updated(fs[i], filename, kwargs)) : i \in Latest(fs, path)}

\* (mutant: the result of find_one_and_update is not looked at)
_update_file_metadata_Unchecked(fs, path, filename, kwargs) ==
  IF Latest(fs, path) = {} THEN {fs}
  ELSE {[fs EXCEPT ![i] = Updated(fs[i], filename, kwargs)] : i \in Latest(fs, path)}

\* _update_file_metadata: find_one_and_update on the latest version of path.
\* The set of stores the call can leave; the empty set is FileNotFoundError.
_update_file_metadata(fs, path, filename, kwargs) ==
  {[fs EXCEPT ![i] = Updated(fs[i], filename, kwargs)] : i \in Latest(fs, path)}

\* (mutant: every version of the filename is marked, not the latest alone)
_delete_file_All(fs, path) ==
  IF Versions(fs, path) = {} THEN {}
  ELSE {[i \in 1..Len(fs) |->
           IF fs[i].filename = path
           THEN Updated(fs[i], None, [deleted |-> TRUE]) ELSE fs[i]]}

\* _delete_file: metadata.deleted := True
_delete_file(fs, path) ==
  _update_file_metadata(fs, path, None, [deleted |-> TRUE])

\* _rename_file: filename, metadata.name and metadata.path are rewritten
_rename_file(fs, old_path, new_path) ==
  _update_file_metadata(fs, old_path, new_path,
                        [name |-> Basename(new_path), path |-> new_path])

\* _save_file: one new GridFS version, uploadDate set by the driver at close
\* (mutant: the upload replaces the version stored under the filename)
_save_file_Replace(fs, model, path, file_type, t) ==
  LET doc == [filename |-> path,
              uploadDate |-> t,
              content |-> Encode(model.content),
              metadata |-> [name |-> Basename(path),
                            path |-> path,
                            type |-> file_type,
                            created |-> model.created,
                            last_modified |-> model.last_modified,
                            mimetype |-> model.mimetype,
                            format |-> IF "format" \in DOMAIN model
                                       THEN model.format ELSE None,
                            deleted |-> FALSE]]
  IN  IF Versions(fs, path) = {} THEN Append(fs, doc)
      ELSE [i \in 1..Len(fs) |-> IF fs[i].filename = path THEN doc ELSE fs[i]]

_save_file(fs, model, path, file_type, t) ==
  Append(fs, [filename |-> path,
              uploadDate |-> t,
              content |-> Encode(model.content),
              metadata |-> [name |-> Basename(path),
                            path |-> path,
                            type |-> file_type,
                            created |-> model.created,
                            last_modified |-> model.last_modified,
                            mimetype |-> model.mimetype,
                            format |-> IF "format" \in DOMAIN model
                                       THEN model.format ELSE None,
                            deleted |-> FALSE]])

\* (mutant: file_type is left at its default, 'file')
_save_notebook_AsFile(fs, model, path, t) ==
  LET file_model == [k \in (DOMAIN model) \cup {"format"} |->
                       IF k = "content" THEN JsonDumps(model.content)
                       ELSE IF k = "format" THEN "json"
                       ELSE model[k]]
  IN  _save_file(fs, file_model, path, "file", t)

\* _save_notebook: the document is serialised and saved as a 'notebook' file
_save_notebook(fs, model, path, t) ==
  LET file_model == [k \in (DOMAIN model) \cup {"format"} |->
                       IF k = "content" THEN JsonDumps(model.content)
                       ELSE IF k = "format" THEN "json"
                       ELSE model[k]]
  IN  _save_file(fs, file_model, path, "notebook", t)

\* ------------------------------------------------------------------- get
\* (mutant: the pattern stops at the prefix, so deeper paths match too)
match_regex_Deep(path, s) ==
  LET pre == RStrip(path) \o <<Slash>>
  IN  StartsWith(s, pre) /\ Len(s) > Len(pre)

\* match_regex of _get_directory: '^' + escape(path.rstrip('/') + '/') + '[^/]+$'
match_regex(path, s) ==
  LET pre == RStrip(path) \o <<Slash>>
  IN  /\ StartsWith(s, pre)
      /\ Len(s) > Len(pre)
      /\ \A i \in (Len(pre) + 1)..Len(s) : s[i] # Slash

\* children.sort(key=lambda i: i['name']): a stable sort
RECURSIVE InsertByName(_, _)
InsertByName(sorted, e) ==
  IF sorted = <<>> THEN <<e>>
  ELSE IF StrLess(e.name, sorted[1].name) THEN <<e>> \o sorted
  ELSE <<sorted[1]>> \o InsertByName(Tail(sorted), e)

RECURSIVE SortByName(_)
SortByName(seq) ==
  IF seq = <<>> THEN <<>>
  ELSE InsertByName(SortByName(SubSeq(seq, 1, Len(seq) - 1)), seq[Len(seq)])

\* the child model of a subdirectory record (lines 286-295)
SubdirectoryChild(subdirectory) ==
  [name |-> Basename(subdirectory.path),
   path |-> denormalize_path(subdirectory.path),
   type |-> "directory",
   created |-> subdirectory.created,
   last_modified |-> subdirectory.last_modified,
   mimetype |-> None,
   format |-> "json",
   content |-> NoContent]

\* the child model of a files document (lines 322-331)
FileChild(file) ==
  [name |-> Basename(file.filename),
   path |-> denormalize_path(file.filename),
   type |-> file.metadata.type,
   created |-> file.metadata.created,
   last_modified |-> file.metadata.last_modified,
   mimetype |-> file.metadata.mimetype,
   format |-> file.metadata.format,
   content |-> NoContent]

\* the subdirectory children, in the order find() yields them
RECURSIVE SubdirectoryChildren(_, _)
SubdirectoryChildren(dirs, path) ==
  IF dirs = <<>> THEN <<>>
  ELSE (IF match_regex(path, dirs[1].path)
        THEN <<SubdirectoryChild(dirs[1])>> ELSE <<>>)
       \o SubdirectoryChildren(Tail(dirs), path)

\* The aggregation pipeline (lines 306-312).  $sort names 'uploadedDate', a field
\* no files document has (GridFS writes 'uploadDate'), so every document has the
\* same sort key and $first yields an unspecified version of each filename.
\* The sets of documents the pipeline can yield, one document per filename.
Pipeline(fs, path) ==
  LET names == {fs[i].filename : i \in {j \in 1..Len(fs) : match_regex(path, fs[j].filename)}}
      firsts == {f \in [names -> 1..Len(fs)] : \A n \in names : fs[f[n]].filename = n}
  IN  {{f[n] : n \in names} : f \in firsts}

\* the file children of one pipeline result: deleted documents are skipped
RECURSIVE FileChildren(_, _, _)
FileChildren(fs, docs, i) ==
  IF i > Len(fs) THEN <<>>
  ELSE (IF i \in docs /\ ~fs[i].metadata.deleted
        THEN <<FileChild(fs[i])>> ELSE <<>>)
       \o FileChildren(fs, docs, i + 1)

\* _get_directory: the results the call can give
_get_directory(dirs, fs, path, content) ==
  LET d == find_one(dirs, path)
      data == dirs[d]
      model == [name |-> Basename(data.path),
                path |-> denormalize_path(data.path),
                mimetype |-> None,
                type |-> "directory",
                writable |-> TRUE,
                created |-> data.created,
                last_modified |-> data.last_modified,
                content |-> NoContent,
                format |-> None]
  IN  IF d = 0 THEN {Absent}
      ELSE IF ~content THEN {Returned(model)}
      ELSE {Returned([model EXCEPT
                        !.content = [tag |-> "list",
                                     val |-> SortByName(SubdirectoryChildren(dirs, path)
                                                        \o FileChildren(fs, docs, 1))],
                        !.format = "json"])
             : docs \in Pipeline(fs, path)}

\* _get_notebook once the GridOut g is known (0 is None: file.metadata raises)
NotebookModel(fs, g, content) ==
  LET metadata == fs[g].metadata
      model == [name |-> metadata.name,
                path |-> denormalize_path(metadata.path),
                format |-> None,
                content |-> NoContent,
                mimetype |-> metadata.mimetype,
                type |-> metadata.type,
                created |-> metadata.created,
                last_modified |-> metadata.last_modified,
                writable |-> TRUE]
      doc == JsonLoad(fs[g].content)
  IN  IF g = 0 THEN Raised("AttributeError")
      ELSE IF ~content THEN Returned(model)
      ELSE IF ~doc.ok THEN Raised("JSONDecodeError")
      ELSE Returned([model EXCEPT !.format = "json",
                                  !.content = [tag |-> "notebook", val |-> doc.val]])

\* _get_notebook called without a file
_get_notebook(fs, path, content) ==
  {NotebookModel(fs, g, content) : g \in _get_file_gridout(fs, path)}

\* (mutant: a notebook found by _get_file is returned as a plain file)
FileModel_NoRedirect(fs, g, content) ==
  LET metadata == fs[g].metadata
      text == Decode(fs[g].content)
      model == [name |-> Basename(metadata.path),
                path |-> denormalize_path(metadata.path),
                format |-> metadata.format,
                mimetype |-> metadata.mimetype,
                type |-> metadata.type,
                created |-> metadata.created,
                last_modified |-> metadata.last_modified,
                writable |-> TRUE,
                content |-> IF content /\ g # 0 THEN [tag |-> "text", val |-> text.val]
                            ELSE NoContent]
  IN  IF g = 0 THEN Raised("AttributeError") ELSE Returned(model)

\* _get_file once the GridOut g is known
FileModel(fs, g, content) ==
  LET metadata == fs[g].metadata
      model == [name |-> Basename(metadata.path),
                path |-> denormalize_path(metadata.path),
                format |-> metadata.format,
                mimetype |-> metadata.mimetype,
                type |-> metadata.type,
                created |-> metadata.created,
                last_modified |-> metadata.last_modified,
                writable |-> TRUE,
                content |-> NoContent]
      text == Decode(fs[g].content)
  IN  IF g = 0 THEN Raised("AttributeError")
      ELSE IF metadata.type = "notebook" THEN NotebookModel(fs, g, content)
      ELSE IF ~content THEN Returned(model)
      ELSE IF ~text.ok THEN Raised("UnicodeDecodeError")
      ELSE Returned([model EXCEPT !.content = [tag |-> "text", val |-> text.val]])

_get_file(fs, path, content) ==
  {FileModel(fs, g, content) : g \in _get_file_gridout(fs, path)}

\* (mutant: with no type given, a file is looked for before a directory)
get_FileFirst(dirs, fs, api_path, content, type) ==
  LET path == normalize_path(api_path)
  IN  IF type = "file" \/ (type = None /\ TRUE \in _file_exists(fs, path))
      THEN _get_file(fs, path, content)
      ELSE IF type = "directory" \/ (type = None /\ _dir_exists(dirs, path))
      THEN _get_directory(dirs, fs, path, content)
      ELSE IF type = "notebook" THEN _get_notebook(fs, path, content)
      ELSE {Absent}

\* get: the results the call can give (type None: the type is inferred)
get(dirs, fs, api_path, content, type) ==
  LET path == normalize_path(api_path)
  IN  IF type = "directory" \/ (type = None /\ _dir_exists(dirs, path))
      THEN _get_directory(dirs, fs, path, content)
      ELSE IF type = "file" THEN _get_file(fs, path, content)
      ELSE IF type = None
      THEN (IF TRUE \in _file_exists(fs, path)
            THEN _get_file(fs, path, content) ELSE {})
           \cup (IF FALSE \in _file_exists(fs, path) THEN {Absent} ELSE {})
      ELSE IF type = "notebook" THEN _get_notebook(fs, path, content)
      ELSE {Absent}

\* ------------------------------------------------------------------ save
\* save up to the dispatch (lines 418-432): the model as stamped
Stamped(model, path, t) ==
  [k \in (DOMAIN model) \cup {"path", "name", "created", "last_modified",
                              "mimetype", "writable"} |->
     CASE k = "path" -> Strip(path)
       [] k = "name" -> Basename(Strip(path))
       [] k = "created" -> IF "created" \in DOMAIN model THEN model.created ELSE t
       [] k = "last_modified" -> t
       [] k = "mimetype" -> IF "mimetype" \in DOMAIN model THEN model.mimetype ELSE None
       [] k = "writable" -> TRUE
       [] OTHER -> model[k]]

\* (mutant: the model is not validated before the store is written)
save_Unchecked(dirs, fs, model, path, t) ==
  LET d == _save_directory(dirs, normalize_path(path), t)
  IN  IF "type" \in DOMAIN model /\ model.type = "directory"
      THEN {[dirs |-> d, fs |-> fs, result |-> r] : r \in get(d, fs, path, FALSE, None)}
      ELSE {[dirs |-> d, fs |-> fs, result |-> Raised("HTTPError 400")]}

\* save: the outcomes of the call, each the stores it leaves and its result
save(dirs, fs, model, path, t) ==
  IF "type" \notin DOMAIN model
  THEN {[dirs |-> dirs, fs |-> fs, result |-> Raised("HTTPError 400")]}
  ELSE IF "content" \notin DOMAIN model /\ model.type # "directory"
  THEN {[dirs |-> dirs, fs |-> fs, result |-> Raised("HTTPError 400")]}
  ELSE
    LET m == Stamped(model, path, t)
        normal_path == normalize_path(path)
        saved(d, f) == {[dirs |-> d, fs |-> f, result |-> r] :
                          r \in get(d, f, path, FALSE, None)}
    IN  IF m.type = "directory"
        THEN saved(_save_directory(dirs, normal_path, t), fs)
        ELSE IF m.type = "file"
        THEN saved(dirs, _save_file(fs, m, normal_path, "file", t))
        ELSE IF m.type = "notebook"
        THEN saved(dirs, _save_notebook(fs, m, normal_path, t))
        ELSE {[dirs |-> dirs, fs |-> fs, result |-> Raised("HTTPError 400")]}

\* ---------------------------------------------------------------- inputs
\* API paths files are saved, deleted and renamed at: 'a' and 'b'
FilePaths == {<<"a">>, <<"b">>}

\* API paths written with leading slashes: '/a' and '//a'
SlashPaths == {<<"/", "a">>, <<"/", "/", "a">>}

\* API paths directories are saved at (the root is created by __init__)
DirPaths == {<<"a">>}

\* the text 'h' U+00E9 and the document [0, 1]
FileModels ==
  {[type |-> "file", content |-> <<104, 233>>, format |-> "text", mimetype |-> "text/plain"],
   [type |-> "notebook", content |-> <<0, 1>>, format |-> "json", mimetype |-> None]}

Types == {None, "directory", "file", "notebook"}

\* --------------------------------------------------------------- actions
\* the record of a call: what was called, with what, and what came back
Call(op, args, result) == [op |-> op, args |-> args, result |-> result]

\* datetime.datetime.now() and the driver's uploadDate, as stored (BSON dates
\* have millisecond resolution): a call reads the millisecond of the latest
\* stamp again, or a later one.  Only the order of stamps is observable, so
\* the readings are numbered consecutively.
Clock == {now, now + 1}

\* the processes that hold a MongoContents on the same database
Callers == {"c1", "c2"}

\* a caller that is not inside a call
Idle == [pc |-> "idle"]

\* __init__ (lines 72-74): the unique index is created (insert_one enforces
\* it) and the root directory is saved unless it exists.  The stores it can leave.
__init__(dirs, fs, t) ==
  IF ~dir_exists(dirs, <<Slash>>)
  THEN {[dirs |-> o.dirs, fs |-> o.fs] :
          o \in save(dirs, fs, [type |-> "directory"], <<Slash>>, t)}
  ELSE {[dirs |-> dirs, fs |-> fs]}

\* the first MongoContents is constructed on the empty database
Init ==
  /\ now = 0
  /\ \E o \in __init__(<<>>, <<>>, 0) :
       /\ directories = o.dirs
       /\ files = o.fs
  /\ last = Call("__init__", <<>>, Done)
  /\ calls = [c \in Callers |-> Idle]

\* another MongoContents is constructed on the same database
Construct ==
  /\ \E t \in Clock : \E o \in __init__(directories, files, t) :
       /\ directories' = o.dirs
       /\ files' = o.fs
       /\ now' = IF o.dirs # directories THEN t ELSE now
  /\ last' = Call("__init__", <<>>, Done)
  /\ UNCHANGED calls

Save(model, path, t) ==
  /\ \E o \in save(directories, files, model, path, t) :
       /\ Len(o.dirs) <= MaxDirs
       /\ Len(o.fs) <= MaxVersions
       /\ directories' = o.dirs
       /\ files' = o.fs
       /\ now' = IF o.dirs # directories \/ o.fs # files THEN t ELSE now
       /\ last' = Call("save", [model |-> model, path |-> path], o.result)
  /\ UNCHANGED calls

\* delete_file
Delete(path) ==
  LET left == _delete_file(files, normalize_path(path))
  IN  /\ IF left = {}
         THEN /\ UNCHANGED files
              /\ last' = Call("delete", [path |-> path], Raised("FileNotFoundError"))
         ELSE /\ files' \in left
              /\ last' = Call("delete", [path |-> path], Done)
      /\ UNCHANGED <<directories, now, calls>>

\* rename_file
Rename(old_path, new_path) ==
  LET left == _rename_file(files, normalize_path(old_path), normalize_path(new_path))
      args == [old_path |-> old_path, new_path |-> new_path]
  IN  /\ IF left = {}
         THEN /\ UNCHANGED files
              /\ last' = Call("rename", args, Raised("FileNotFoundError"))
         ELSE /\ files' \in left
              /\ last' = Call("rename", args, Done)
      /\ UNCHANGED <<directories, now, calls>>

Get(path, content, type) ==
  /\ \E r \in get(directories, files, path, content, type) :
       last' = Call("get", [path |-> path, content |-> content, type |-> type], r)
  /\ UNCHANGED <<directories, files, now, calls>>

\* callers saving, deleting and renaming files at paths, and saving the directory
NextOn(paths) ==
  \/ \E model \in FileModels, path \in paths, t \in Clock : Save(model, path, t)
  \/ \E path \in DirPaths, t \in Clock : Save([type |-> "directory"], path, t)
  \/ \E path \in paths : Delete(path)
  \/ \E old_path \in paths : \E new_path \in paths \ {old_path} :
       Rename(old_path, new_path)

Next == NextOn(FilePaths)

Spec == Init /\ [][Next]_vars

\* callers who write leading slashes
NextSlash == NextOn(SlashPaths)

SpecSlash == Init /\ [][NextSlash]_vars

\* the same callers, who also call get
GetPaths == FilePaths \cup {<<>>}

NextGet ==
  \/ Next
  \/ \E path \in GetPaths, content \in BOOLEAN, type \in Types : Get(path, content, type)

SpecGet == Init /\ [][NextGet]_vars

\* API paths of a tree of directories: '', 'a', 'a/', 'a/b' and 'b'
DirApiPaths ==
  {<<>>, <<"a">>, <<"a", "/">>, <<"a", "/", "b">>, <<"b">>}

\* callers building a tree of directories with a text file in it, one call a
\* millisecond, who rename 'a' and 'a/b' to 'b', and a second MongoContents
\* constructed on the database
NextDir ==
  \/ Construct
  \/ \E path \in DirApiPaths : Save([type |-> "directory"], path, now + 1)
  \/ \E model \in {m \in FileModels : m.type = "file"} :
        Save(model, <<"a", "/", "b">>, now + 1)
  \/ \E old_path \in {<<"a">>, <<"a", "/", "b">>} : Rename(old_path, <<"b">>)

SpecDir == Init /\ [][NextDir]_vars

\* models save must refuse: no type, no content (file, notebook), unknown type
InvalidModels ==
  {[content |-> <<104>>, format |-> "text"],
   [type |-> "file", format |-> "text"],
   [type |-> "notebook"],
   [type |-> "link", content |-> <<104>>]}

\* valid models of each type, with and without the time of construction as
\* the caller's 'created'
ValidModels ==
  {[type |-> "directory"],
   [type |-> "directory", created |-> 0],
   [type |-> "file", content |-> <<104>>, format |-> "text"],
   [type |-> "file", content |-> <<104>>, format |-> "text", created |-> 0],
   [type |-> "notebook", content |-> <<1>>, format |-> "json", created |-> 0]}

\* callers saving models of every kind, valid and invalid, one call a millisecond
NextSave ==
  \/ \E model \in ValidModels, path \in FilePaths : Save(model, path, now + 1)
  \/ \E model \in InvalidModels, path \in FilePaths : Save(model, path, now + 1)

SpecSave == Init /\ [][NextSave]_vars

\* ------------------------------------------------------------ concurrency
\* Callers share the database and nothing else (no locks): a call is a
\* sequence of store operations, each atomic on the one document it touches,
\* and the operations of different callers interleave freely.  A caller's
\* entry in calls holds the call it is inside: op and args, the statement it
\* is at (pc), and after the write of a save what it wrote (written: the
\* position of the document inserted, 0 when the insert hit the unique index).  A list query, and cursor.count() with the
\* list(cursor) after it, are taken as one read.

\* the statement a call starts at
Entry(op) ==
  CASE op = "__init__" -> "create_index"
    [] op = "save" -> "write"
    [] op = "get" -> "dir_exists"
    [] OTHER -> "update"

\* a caller enters a call
Invoke(c, op, args) ==
  /\ calls[c].pc = "idle" \/ (calls[c].pc = "new" /\ op = "__init__")
  /\ calls' = [calls EXCEPT ![c] = [pc |-> Entry(op), op |-> op, args |-> args,
                                    written |-> 0]]
  /\ UNCHANGED <<directories, files, now, last>>

\* the caller's call returns (or raises): __init__ returns nothing
Return(c, result) ==
  /\ calls' = [calls EXCEPT ![c] = Idle]
  /\ last' = IF calls[c].op = "__init__"
             THEN Call("__init__", <<>>, IF result.kind = "error" THEN result ELSE Done)
             ELSE Call(calls[c].op, calls[c].args, result)

Goto(c, pc) == calls' = [calls EXCEPT ![c].pc = pc]

\* __init__, line 72: create_index is idempotent; every insert of a caller
\* comes after it, which is why insert_one always enforces the index
CreateIndex(c) ==
  /\ calls[c].pc = "create_index"
  /\ Goto(c, "check_root")
  /\ UNCHANGED <<directories, files, now, last>>

\* __init__, line 73: if not self.dir_exists('/')
CheckRoot(c) ==
  /\ calls[c].pc = "check_root"
  /\ IF dir_exists(directories, <<Slash>>)
     THEN Return(c, Done)
     ELSE Goto(c, "write") /\ UNCHANGED last
  /\ UNCHANGED <<directories, files, now>>

\* save, lines 418-442: validation, stamping and the one write of the call
Write(c) ==
  LET model == calls[c].args.model
      path == calls[c].args.path
      normal_path == normalize_path(path)
  IN  /\ calls[c].pc = "write"
      /\ IF \/ "type" \notin DOMAIN model
            \/ "content" \notin DOMAIN model /\ model.type # "directory"
            \/ model.type \notin {"directory", "file", "notebook"}
         THEN /\ Return(c, Raised("HTTPError 400"))
              /\ UNCHANGED <<directories, files, now>>
         ELSE \E t \in Clock :
                LET m == Stamped(model, path, t)
                    d == IF m.type = "directory"
                         THEN _save_directory(directories, normal_path, t)
                         ELSE directories
                    f == IF m.type = "file"
                         THEN _save_file(files, m, normal_path, "file", t)
                         ELSE IF m.type = "notebook"
                         THEN _save_notebook(files, m, normal_path, t)
                         ELSE files
                IN  /\ Len(d) <= MaxDirs
                    /\ Len(f) <= MaxVersions
                    /\ directories' = d
                    /\ files' = f
                    /\ now' = IF d # directories \/ f # files THEN t ELSE now
                    /\ calls' = [calls EXCEPT ![c].pc = "dir_exists",
                                              ![c].written =
                                                 IF f # files THEN Len(f)
                                                 ELSE IF d # directories THEN Len(d)
                                                 ELSE 0]
                    /\ UNCHANGED last

\* the content flag of the get the caller is in: save re-fetches without content
ContentOf(call) == IF call.op = "get" THEN call.args.content ELSE FALSE

\* get, line 240: type is None and self._dir_exists(path)
DirExists(c) ==
  /\ calls[c].pc = "dir_exists"
  /\ IF _dir_exists(directories, normalize_path(calls[c].args.path))
     THEN Goto(c, "get_directory")
     ELSE Goto(c, "file_exists")
  /\ UNCHANGED <<directories, files, now, last>>

\* get, line 241: model = self._get_directory(path, content)
GetDirectory(c) ==
  /\ calls[c].pc = "get_directory"
  /\ \E r \in _get_directory(directories, files,
                             normalize_path(calls[c].args.path), ContentOf(calls[c])) :
       Return(c, r)
  /\ UNCHANGED <<directories, files, now>>

\* get, line 242: type is None and self._file_exists(path)
FileExists(c) ==
  /\ calls[c].pc = "file_exists"
  /\ \E b \in _file_exists(files, normalize_path(calls[c].args.path)) :
       IF b THEN Goto(c, "get_file") /\ UNCHANGED last
            ELSE Return(c, Absent)
  /\ UNCHANGED <<directories, files, now>>

\* get, line 243: model = self._get_file(path, content), which queries again
GetFile(c) ==
  /\ calls[c].pc = "get_file"
  /\ \E r \in _get_file(files, normalize_path(calls[c].args.path), ContentOf(calls[c])) :
       Return(c, r)
  /\ UNCHANGED <<directories, files, now>>

\* delete_file and rename_file: one find_one_and_update
Update(c) ==
  LET args == calls[c].args
      left == IF calls[c].op = "delete"
              THEN _delete_file(files, normalize_path(args.path))
              ELSE _rename_file(files, normalize_path(args.old_path),
                                normalize_path(args.new_path))
  IN  /\ calls[c].pc = "update"
      /\ IF left = {}
         THEN UNCHANGED files /\ Return(c, Raised("FileNotFoundError"))
         ELSE files' \in left /\ Return(c, Done)
      /\ UNCHANGED <<directories, now>>

\* the next statement of a call on a constructed MongoContents
Step(c) ==
  \/ Write(c)
  \/ DirExists(c)
  \/ GetDirectory(c)
  \/ FileExists(c)
  \/ GetFile(c)
  \/ Update(c)

\* the next statement of a constructor or of a save of a directory; the
\* re-fetch of such a save always finds the directory (C21)
DirStep(c) ==
  \/ CreateIndex(c)
  \/ CheckRoot(c)
  \/ Write(c)
  \/ DirExists(c)
  \/ GetDirectory(c)

\* an empty database that no MongoContents has been constructed on yet
InitEmpty ==
  /\ directories = <<>>
  /\ files = <<>>
  /\ now = 0
  /\ last = Call("connect", <<>>, Done)
  /\ calls = [c \in Callers |-> [pc |-> "new"]]

\* callers construct their MongoContents and save directories, concurrently
NextInit ==
  \E c \in Callers :
    \/ Invoke(c, "__init__", [model |-> [type |-> "directory"], path |-> <<Slash>>])
    \/ \E path \in {<<>>, <<"a">>, <<"b">>} :
         Invoke(c, "save", [model |-> [type |-> "directory"], path |-> path])
    \/ DirStep(c)

SpecInit == InitEmpty /\ [][NextInit]_vars

\* the file model a caller saves: content '1' for one caller, '2' for the other
RaceModel(c) ==
  [type |-> "file", content |-> <<IF c = "c1" THEN 49 ELSE 50>>,
   format |-> "text", mimetype |-> "text/plain"]

\* two callers of a constructed MongoContents work at 'a' concurrently: one
\* saves a file and reads it, the other deletes it, renames it to 'b', and
\* saves a directory
NextRace ==
  \/ Invoke("c1", "save", [model |-> RaceModel("c1"), path |-> <<"a">>])
  \/ Invoke("c1", "get", [path |-> <<"a">>, content |-> TRUE, type |-> None])
  \/ Invoke("c2", "delete", [path |-> <<"a">>])
  \/ Invoke("c2", "rename", [old_path |-> <<"a">>, new_path |-> <<"b">>])
  \/ Invoke("c2", "save", [model |-> [type |-> "directory"], path |-> <<"a">>])
  \/ \E c \in Callers : Step(c)

SpecRace == Init /\ [][NextRace]_vars

\* the next statement of a save
SaveStep(c) ==
  \/ Write(c)
  \/ DirExists(c)
  \/ GetDirectory(c)
  \/ FileExists(c)
  \/ GetFile(c)

\* two callers of a constructed MongoContents save at 'a' concurrently, each
\* its file model or a directory
NextSaves ==
  \E c \in Callers :
    \/ Invoke(c, "save", [model |-> RaceModel(c), path |-> <<"a">>])
    \/ Invoke(c, "save", [model |-> [type |-> "directory"], path |-> <<"a">>])
    \/ SaveStep(c)

SpecSaves == Init /\ [][NextSaves]_vars

\* ---------------------------------------------------------------- claims
\* what the last call was
Saved(type) ==
  /\ last.op = "save"
  /\ last.args.model.type = type

\* the normalized path of the last call
LastPath == normalize_path(last.args.path)

\* the version the last save appended is the only latest version of its filename
NewestAlone ==
  \A i \in Versions(files, LastPath) \ {Len(files)} :
     files[i].uploadDate < files[Len(files)].uploadDate

\* every result get can give for the path is a model with the text as content
GetsText(api_path, type, text) ==
  \A r \in get(directories, files, api_path, TRUE, type) :
     /\ r.kind = "model"
     /\ r.model.content.tag = "text"
     /\ r.model.content.val = text

\* C1 as stated: after save(m, p) of a file model, save returns a model and
\* get(save(m, p).path, content=True) has m's content.
C1_AsStated ==
  Saved("file") =>
    /\ last.result.kind = "model"
    /\ GetsText(last.result.model.path, None, last.args.model.content)

\* C1 (amended): after save(m, p) of a file model at a path p that does not
\* begin with '//', where no directory record exists at normalize(p) and every
\* other version stored under normalize(p) has an earlier uploadDate, save
\* returns a model and get(save(m, p).path, content=True) has m's content.
C1_RoundTrip ==
  ( /\ Saved("file")
    /\ ~StartsWith(last.args.path, <<Slash, Slash>>)
    /\ ~_dir_exists(directories, LastPath)
    /\ NewestAlone )
  => /\ last.result.kind = "model"
     /\ GetsText(last.result.model.path, None, last.args.model.content)

\* a file was saved over an older version of the same path and read back
C1_Witness ==
  /\ Saved("file")
  /\ ~StartsWith(last.args.path, <<Slash, Slash>>)
  /\ ~_dir_exists(directories, LastPath)
  /\ NewestAlone
  /\ Cardinality(Versions(files, LastPath)) >= 2
  /\ last.result.kind = "model"
  /\ GetsText(last.result.model.path, None, last.args.model.content)

\* the last call was op and it returned normally
Completed(op) ==
  /\ last.op = op
  /\ last.result = Done

\* get(api_path) returns None, with and without content
GetsAbsent(api_path) ==
  /\ get(directories, files, api_path, TRUE, None) = {Absent}
  /\ get(directories, files, api_path, FALSE, None) = {Absent}

\* C2 as stated: after delete(p) completes, get(p) returns absent.
C2_AsStated ==
  Completed("delete") => GetsAbsent(last.args.path)

\* C2 (amended): after delete(p) completes, where the version it marked was the
\* only latest version of normalize(p), fileExists(p) is false; and get(p)
\* returns absent unless a directory record exists at normalize(p), in which
\* case it returns the directory model.
C2_SoftDelete ==
  ( /\ Completed("delete")
    /\ Cardinality(Latest(files, LastPath)) = 1 )
  => /\ file_exists(files, last.args.path) = {FALSE}
     /\ ~_dir_exists(directories, LastPath) => GetsAbsent(last.args.path)
     /\ _dir_exists(directories, LastPath) =>
          \A r \in get(directories, files, last.args.path, TRUE, None) :
             r.kind = "model" /\ r.model.type = "directory"

\* a path holding two versions was deleted and get finds nothing there
C2_Witness ==
  /\ Completed("delete")
  /\ Cardinality(Latest(files, LastPath)) = 1
  /\ Cardinality(Versions(files, LastPath)) >= 2
  /\ ~_dir_exists(directories, LastPath)
  /\ GetsAbsent(last.args.path)

\* get(api_path) can only return a file or notebook model: a present file
IsPresentFile(dirs, fs, api_path) ==
  \A r \in get(dirs, fs, api_path, TRUE, None) :
     r.kind = "model" /\ r.model.type \in {"file", "notebook"}

\* the contents get(api_path, content=True) can return
Contents(dirs, fs, api_path) ==
  {r.model.content : r \in get(dirs, fs, api_path, TRUE, None)}

\* no two versions were uploaded in the same millisecond
DistinctStamps(fs) ==
  \A i, j \in 1..Len(fs) : i # j => fs[i].uploadDate # fs[j].uploadDate

\* C3 as stated: when oldPath is a present file with content c, after
\* rename(oldPath, newPath) succeeds get(newPath, content=True) has content c.
\* (Stated for the stores whose upload timestamps all differ and the newPath
\* that holds no directory record, where the latest version is not in doubt.)
C3_AsStated ==
  [][ ( /\ last'.op = "rename"
        /\ last'.result = Done
        /\ DistinctStamps(files)
        /\ ~dir_exists(directories, last'.args.new_path)
        /\ IsPresentFile(directories, files, last'.args.old_path)
        /\ Cardinality(Contents(directories, files, last'.args.old_path)) = 1 )
      => \A r \in get(directories', files', last'.args.new_path, TRUE, None) :
            /\ r.kind = "model"
            /\ \A c \in Contents(directories, files, last'.args.old_path) :
                  r.model.content.tag = c.tag /\ r.model.content.val = c.val
    ]_vars

\* C4 as stated: when oldPath is a present file and newPath differs from it,
\* after rename(oldPath, newPath) succeeds get(oldPath) returns absent.
\* (Stated for the stores whose upload timestamps all differ.)
C4_AsStated ==
  [][ ( /\ last'.op = "rename"
        /\ last'.result = Done
        /\ DistinctStamps(files)
        /\ normalize_path(last'.args.old_path) # normalize_path(last'.args.new_path)
        /\ IsPresentFile(directories, files, last'.args.old_path) )
      => get(directories', files', last'.args.old_path, TRUE, None) = {Absent}
    ]_vars

\* the latest version of the filename is one version, present, of type notebook
NotebookAt(fs, path) ==
  /\ Cardinality(Latest(fs, path)) = 1
  /\ \A i \in Latest(fs, path) :
        fs[i].metadata.type = "notebook" /\ ~fs[i].metadata.deleted

\* every result get can give is a notebook model holding a parsed document,
\* which is the document of the last call when that call saved it at api_path
GetsNotebook(api_path, type) ==
  \A r \in get(directories, files, api_path, TRUE, type) :
     /\ r.kind = "model"
     /\ r.model.type = "notebook"
     /\ r.model.format = "json"
     /\ r.model.content.tag = "notebook"
     /\ (Saved("notebook") /\ last.args.path = api_path)
          => r.model.content.val = last.args.model.content

\* C5 as stated: for a path whose latest version was saved with type notebook,
\* get(p, type=file) and get(p) return a notebook model with the parsed document.
C5_AsStated ==
  \A p \in FilePaths :
     ( /\ Latest(files, normalize_path(p)) # {}
       /\ \A i \in Latest(files, normalize_path(p)) :
             files[i].metadata.type = "notebook" )
     => GetsNotebook(p, "file") /\ GetsNotebook(p, None)

\* C5 (amended): for a path whose latest version is one version, not marked
\* deleted, saved with type notebook, get(p, type=file) returns a notebook model
\* with the parsed document, equal to the one saved; get(p) with no type does
\* so when no directory record exists at normalize(p) and returns the directory
\* model when one does.  In every state get(p, type=file) parses as a document
\* only the blob whose metadata says notebook: it never fails in the parser.
C5_TypeInference ==
  \A p \in FilePaths :
     /\ Raised("JSONDecodeError") \notin get(directories, files, p, TRUE, "file")
     /\ NotebookAt(files, normalize_path(p)) =>
          /\ GetsNotebook(p, "file")
          /\ ~dir_exists(directories, p) => GetsNotebook(p, None)
          /\ dir_exists(directories, p) =>
               \A r \in get(directories, files, p, TRUE, None) :
                  r.kind = "model" /\ r.model.type = "directory"

\* a notebook was saved over a plain file and both gets return the document
C5_Witness ==
  /\ Saved("notebook")
  /\ NotebookAt(files, LastPath)
  /\ \E i \in Versions(files, LastPath) : files[i].metadata.type = "file"
  /\ ~dir_exists(directories, last.args.path)
  /\ GetsNotebook(last.args.path, "file")
  /\ GetsNotebook(last.args.path, None)
  /\ get(directories, files, last.args.path, TRUE, "file") # {}

\* the file and notebook entries of a listing
FileEntries(listing) ==
  {listing[k] : k \in {n \in 1..Len(listing) : listing[n].type # "directory"}}

\* the versions a listing of the directory should show: for each filename one
\* segment below it, the version with the greatest uploadDate, unless deleted
LatestBelow(fs, path) ==
  {i \in 1..Len(fs) : /\ match_regex(path, fs[i].filename)
                      /\ i \in Latest(fs, fs[i].filename)
                      /\ ~fs[i].metadata.deleted}

\* C8 as stated: the file and notebook entries of get(d, content=True) are one
\* entry per filename one segment below d whose latest version is not deleted,
\* built from that version's metadata.  (Stated for the root directory and the
\* stores whose upload timestamps all differ.)
C8_AsStated ==
  DistinctStamps(files) =>
    \A r \in get(directories, files, <<>>, TRUE, None) :
       /\ r.kind = "model"
       /\ FileEntries(r.model.content.val)
            = {FileChild(files[i]) : i \in LatestBelow(files, <<Slash>>)}
       /\ Cardinality({n \in 1..Len(r.model.content.val) :
                         r.model.content.val[n].type # "directory"})
            = Cardinality(LatestBelow(files, <<Slash>>))

\* C9: the root directory record exists in every reachable state: dirExists('/')
\* is true and get('') returns the root directory's model.
C9_RootBootstrap ==
  /\ _dir_exists(directories, <<Slash>>)
  /\ dir_exists(directories, <<Slash>>)
  /\ dir_exists(directories, <<>>)
  /\ get(directories, files, <<>>, FALSE, None) # {}
  /\ \A r \in get(directories, files, <<>>, FALSE, None) :
        /\ r.kind = "model"
        /\ r.model.type = "directory"
        /\ r.model.path = <<>>

\* files were saved, deleted and renamed, and the root is still there
C9_Witness ==
  /\ Completed("rename")
  /\ \E i \in 1..Len(files) : files[i].metadata.deleted
  /\ Len(directories) >= 2
  /\ dir_exists(directories, <<Slash>>)
  /\ \E r \in get(directories, files, <<>>, FALSE, None) : r.kind = "model"

\* C10 as stated: get on a path with no directory record and no present file
\* returns absent, whatever type is asked for, and never fails.
C10_AsStated ==
  ( /\ last.op = "get"
    /\ ~dir_exists(directories, last.args.path)
    /\ file_exists(files, last.args.path) = {FALSE} )
  => last.result = Absent

\* C6: no two directory records share a path, and after save({type: directory},
\* p), the first or a repeated one, there is exactly one record at normalize(p),
\* the call returned the directory's model and dirExists(p) is true.
C6_IdempotentDirectory ==
  /\ \A i, j \in 1..Len(directories) :
        directories[i].path = directories[j].path => i = j
  /\ Saved("directory") =>
        /\ Cardinality({i \in 1..Len(directories) : directories[i].path = LastPath}) = 1
        /\ last.result.kind = "model"
        /\ last.result.model.type = "directory"
        /\ dir_exists(directories, last.args.path)

\* a directory was saved again after a later directory had been inserted
C6_Witness ==
  /\ Saved("directory")
  /\ find_one(directories, LastPath) # 0
  /\ find_one(directories, LastPath) < Len(directories)
  /\ last.args.path # <<>>
  /\ last.result.kind = "model"

\* str.split('/'): the segments of a path
RECURSIVE Split(_)
Split(s) ==
  IF LastSlash(s) = 0 THEN <<s>>
  ELSE Append(Split(SubSeq(s, 1, LastSlash(s) - 1)),
              SubSeq(s, LastSlash(s) + 1, Len(s)))

\* child is parent followed by exactly one further, nonempty segment
IsChildOf(child, parent) ==
  /\ Len(Split(child)) = Len(Split(RStrip(parent))) + 1
  /\ SubSeq(Split(child), 1, Len(Split(child)) - 1) = Split(RStrip(parent))
  /\ Split(child)[Len(Split(child))] # <<>>

\* the positions of the directory entries of a listing
DirectoryEntries(listing) ==
  {n \in 1..Len(listing) : listing[n].type = "directory"}

\* C7: for every directory d, the directory entries of get(d, content=True)
\* are the directory records whose path is d followed by exactly one further
\* segment, one entry per record: not d itself, not a deeper descendant.
C7_ImmediateChildren ==
  \A p \in DirApiPaths :
     dir_exists(directories, p) =>
       \A r \in get(directories, files, p, TRUE, None) :
          LET children == {i \in 1..Len(directories) :
                             IsChildOf(directories[i].path, normalize_path(p))}
              listing == r.model.content.val
          IN  /\ r.kind = "model"
              /\ r.model.content.tag = "list"
              /\ {listing[n].path : n \in DirectoryEntries(listing)}
                   = {denormalize_path(directories[i].path) : i \in children}
              /\ Cardinality(DirectoryEntries(listing)) = Cardinality(children)

\* the chain '', 'a', 'a/b' exists with a file at 'a/b': the root lists 'a'
\* alone, 'a' lists the directory 'a/b', and 'a/b' lists nothing
C7_Witness ==
  /\ dir_exists(directories, <<"a">>)
  /\ dir_exists(directories, <<"a", "/", "b">>)
  /\ TRUE \in file_exists(files, <<"a", "/", "b">>)
  /\ \A r \in get(directories, files, <<>>, TRUE, None) :
        {r.model.content.val[n].path : n \in DirectoryEntries(r.model.content.val)}
          = {<<"a">>}
  /\ \A r \in get(directories, files, <<"a">>, TRUE, None) :
        {r.model.content.val[n].path : n \in DirectoryEntries(r.model.content.val)}
          = {<<"a", "/", "b">>}
  /\ \A r \in get(directories, files, <<"a", "/", "b">>, TRUE, None) :
        r.model.content.val = <<>>

\* the models the claim says save rejects
IsInvalid(model) ==
  \/ "type" \notin DOMAIN model
  \/ "content" \notin DOMAIN model /\ model.type # "directory"
  \/ model.type \notin {"directory", "file", "notebook"}

\* C11: save(m, p) of a model with no type, with no content and a type other
\* than directory, or with a type that is none of directory, file and notebook,
\* fails with HTTP error 400 and leaves directories and files as they were.
C11_InvalidSave ==
  [][ (last'.op = "save" /\ IsInvalid(last'.args.model))
      => /\ last'.result = Raised("HTTPError 400")
         /\ directories' = directories
         /\ files' = files
    ]_vars

\* a model of unknown type was refused on a store that already holds a
\* directory and a file version
C11_Witness ==
  /\ last.op = "save"
  /\ "type" \in DOMAIN last.args.model
  /\ last.args.model.type = "link"
  /\ last.result = Raised("HTTPError 400")
  /\ Len(directories) >= 2
  /\ Len(files) >= 1

\* the filename the delete or rename of the step is aimed at
Target(call) ==
  normalize_path(IF call.op = "delete" THEN call.args.path ELSE call.args.old_path)

IsCanonical(path) ==
  /\ StartsWith(path, <<Slash>>)
  /\ path = <<Slash>> \/ path[Len(path)] # Slash

\* C14 as stated: normalize(p) is the root prefix joined with p and is in
\* canonical form, so that after a directory is saved at p, dirExists is true of
\* every API path that differs from p only by leading or trailing slashes.
C14_AsStated ==
  Saved("directory") =>
    /\ LastPath = PathJoin(path_prefix, last.args.path)
    /\ IsCanonical(LastPath)
    /\ \A q \in DirApiPaths :
          Strip(q) = Strip(last.args.path) => dir_exists(directories, q)

\* C15: for a directory saved at an API path p without leading or trailing
\* slash, denormalize(normalize(p)) = p and get(p, type=directory) returns a
\* model with path p, name the last segment of p, mimetype None and, with its
\* content (the default of get), format 'json'.
C15_PathRoundTrip ==
  \A p \in DirApiPaths :
     (Strip(p) = p /\ dir_exists(directories, p)) =>
       /\ denormalize_path(normalize_path(p)) = p
       /\ \A content \in BOOLEAN :
            \A r \in get(directories, files, p, content, "directory") :
               /\ r.kind = "model"
               /\ r.model.path = p
               /\ r.model.name = Split(p)[Len(Split(p))]
               /\ r.model.mimetype = None
               /\ content => r.model.format = "json"

\* the directory 'a/b' was saved last and get returns it with path 'a/b' and
\* name 'b'
C15_Witness ==
  /\ Saved("directory")
  /\ last.args.path = <<"a", "/", "b">>
  /\ \E r \in get(directories, files, last.args.path, TRUE, "directory") :
        /\ r.kind = "model"
        /\ r.model.path = <<"a", "/", "b">>
        /\ r.model.name = <<"b">>
        /\ r.model.format = "json"

\* C16 as stated: rename_file(old, new) of a path that is a directory and has no
\* file version, while another directory exists elsewhere, raises no error.
C16_AsStated ==
  ( /\ last.op = "rename"
    /\ dir_exists(directories, last.args.old_path)
    /\ Versions(files, normalize_path(last.args.old_path)) = {}
    /\ \E i \in 1..Len(directories) :
          directories[i].path \notin {<<Slash>>, normalize_path(last.args.old_path)} )
  => last.result = Done

\* C17: get(p) with no type returns a directory model if a directory record
\* exists at p, even when a present file exists there too; otherwise, if a
\* present file exists at p, a file or notebook model according to the type in
\* the metadata of its latest version; otherwise None.
C17_InferenceOrder ==
  \A p \in FilePaths, content \in BOOLEAN :
     LET results == get(directories, files, p, content, None)
         path == normalize_path(p)
     IN  /\ results # {}
         /\ dir_exists(directories, p) =>
               \A r \in results : r.kind = "model" /\ r.model.type = "directory"
         /\ (~dir_exists(directories, p) /\ file_exists(files, p) = {TRUE}) =>
               \A r \in results :
                  /\ r.kind = "model"
                  /\ r.model.type \in {"file", "notebook"}
                  /\ \E i \in Latest(files, path) : r.model.type = files[i].metadata.type
         /\ (~dir_exists(directories, p) /\ file_exists(files, p) = {FALSE}) =>
               results = {Absent}

\* 'a' is a directory and a present file and get('a') returns the directory,
\* 'b' is a present notebook and get('b') returns the notebook
C17_Witness ==
  /\ dir_exists(directories, <<"a">>)
  /\ file_exists(files, <<"a">>) = {TRUE}
  /\ \A r \in get(directories, files, <<"a">>, TRUE, None) :
        r.kind = "model" /\ r.model.type = "directory"
  /\ ~dir_exists(directories, <<"b">>)
  /\ file_exists(files, <<"b">>) = {TRUE}
  /\ \A r \in get(directories, files, <<"b">>, TRUE, None) :
        r.kind = "model" /\ r.model.type = "notebook"

\* C18: versions are only added and their bytes never change: a save of a file
\* or a notebook at p adds exactly one version, under filename normalize(p); a
\* save of a directory adds none; delete and rename add none and remove none,
\* and change at most one document, a latest version of their target; no step
\* changes the content (or the uploadDate) of a version that exists.
C18_VersionsOnlyGrow ==
  [][ /\ Len(files') >= Len(files)
      /\ \A i \in 1..Len(files) :
            /\ files'[i].content = files[i].content
            /\ files'[i].uploadDate = files[i].uploadDate
      /\ (last'.op = "save" /\ last'.args.model.type \in {"file", "notebook"}) =>
            /\ Len(files') = Len(files) + 1
            /\ files'[Len(files')].filename = normalize_path(last'.args.path)
            /\ SubSeq(files', 1, Len(files)) = files
      /\ (last'.op = "save" /\ last'.args.model.type = "directory") =>
            files' = files
      /\ last'.op \in {"delete", "rename"} =>
            /\ Len(files') = Len(files)
            /\ \A i, j \in 1..Len(files) :
                  (files'[i] # files[i] /\ files'[j] # files[j]) =>
                     i = j /\ i \in Latest(files, Target(last'))
    ]_vars

\* two versions were saved, one was deleted and the other renamed: there are
\* still two
C18_Witness ==
  /\ Completed("rename")
  /\ Len(files) = 2
  /\ \E i \in 1..Len(files) : files[i].metadata.deleted
  /\ \E i \in 1..Len(files) :
        files[i].filename = normalize_path(last.args.new_path)
          /\ ~files[i].metadata.deleted

\* C19: a directory record, once it exists, stays as it is: no step of save
\* (of a directory at the same path again, or of a file there), delete or rename
\* removes it or changes its path, created or last_modified, and dirExists(p)
\* stays true.
C19_DirectoriesPermanent ==
  [][ /\ \A i \in 1..Len(directories) :
            /\ i <= Len(directories')
            /\ directories'[i] = directories[i]
      /\ \A p \in GetPaths :
            dir_exists(directories, p) => dir_exists(directories', p)
    ]_vars

\* the file at a path that is a directory too was deleted some time after the
\* directory was created, and the directory is there as created
C19_Witness ==
  /\ Completed("delete")
  /\ dir_exists(directories, last.args.path)
  /\ \E i \in 1..Len(directories) :
        /\ directories[i].path = LastPath
        /\ directories[i].created = directories[i].last_modified
        /\ directories[i].created < now

\* C20 as stated: after save(m, p) of a valid model of any type on a path that
\* held no directory and no version, get(p).created is m's created if m carries
\* one and the time of the save if not, and get(p).last_modified is the time of
\* the save.
C20_AsStated ==
  [][ ( /\ last'.op = "save"
        /\ ~IsInvalid(last'.args.model)
        /\ ~dir_exists(directories, last'.args.path)
        /\ Versions(files, normalize_path(last'.args.path)) = {} )
      => \A r \in get(directories', files', last'.args.path, FALSE, None) :
            /\ r.kind = "model"
            /\ r.model.created = IF "created" \in DOMAIN last'.args.model
                                 THEN last'.args.model.created ELSE now'
            /\ r.model.last_modified = now'
    ]_vars

\* the step writes the filename: a save at it, or a rename onto it
Writes(call, path) ==
  \/ call.op = "save" /\ normalize_path(call.args.path) = path
  \/ call.op = "rename" /\ normalize_path(call.args.new_path) = path

\* C24 as stated: after delete(p) has completed, fileExists(p) is false after
\* every further step that is not a save at p or a rename onto p: another
\* delete(p) or a rename of p away brings no older version back.  (Stated for
\* the step that follows the delete, in the stores whose upload timestamps all
\* differ.)
C24_AsStated ==
  [][ ( /\ Completed("delete")
        /\ DistinctStamps(files)
        /\ ~Writes(last', LastPath) )
      => file_exists(files', last.args.path) = {FALSE}
    ]_vars

\* C25 as stated: a successful delete(p) sets the deleted flag of one latest
\* version of normalize(p) and changes nothing else: not the directories, not
\* another version, not get(q) or fileExists(q) for any path q other than p.
C25_AsStated ==
  [][ (last'.op = "delete" /\ last'.result = Done) =>
        /\ directories' = directories
        /\ \E i \in Latest(files, Target(last')) :
              files' = [files EXCEPT ![i].metadata.deleted = TRUE]
        /\ \A q \in GetPaths \ {last'.args.path} :
              /\ file_exists(files', q) = file_exists(files, q)
              /\ \A content \in BOOLEAN, type \in Types :
                    get(directories', files', q, content, type)
                      = get(directories, files, q, content, type)
    ]_vars

\* C25 (amended): a successful delete(p) sets the deleted flag of one latest
\* version of normalize(p) and changes nothing else in the stores; fileExists(q)
\* and get(q) are unchanged for every path q other than p, except the content
\* of get(q) for the directory q that lists p.
C25_DeleteFrame ==
  [][ (last'.op = "delete" /\ last'.result = Done) =>
        /\ directories' = directories
        /\ \E i \in Latest(files, Target(last')) :
              files' = [files EXCEPT ![i].metadata.deleted = TRUE]
        /\ \A q \in GetPaths \ {last'.args.path} :
              /\ file_exists(files', q) = file_exists(files, q)
              /\ \A content \in BOOLEAN, type \in Types :
                    (content => ~match_regex(normalize_path(q), Target(last')))
                    => get(directories', files', q, content, type)
                         = get(directories, files, q, content, type)
    ]_vars

\* 'a' was deleted while two versions of it and a present file 'b' are stored
C25_Witness ==
  /\ Completed("delete")
  /\ last.args.path = <<"a">>
  /\ Cardinality(Versions(files, LastPath)) = 2
  /\ Cardinality({i \in Versions(files, LastPath) : files[i].metadata.deleted}) = 1
  /\ file_exists(files, <<"a">>) = {FALSE}

\* a caller inside a call
Busy(c) == calls[c].pc \notin {"idle", "new"}

\* C21: however concurrent directory saves and concurrent constructions (each
\* checking for the root and then creating it) interleave, no two directory
\* records have the same path, no call is ever blocked, and every
\* call that returns has succeeded.
C21_RacingCreates ==
  /\ \A i, j \in 1..Len(directories) :
        directories[i].path = directories[j].path => i = j
  /\ \A c \in Callers : Busy(c) => ENABLED DirStep(c)
  /\ last.op \in {"__init__", "save"} => last.result.kind \in {"done", "model"}

\* a constructor found no root, and its insert of the root then hit the unique
\* index: another caller created the root in between, and has returned
C21_Witness ==
  /\ last.op \in {"__init__", "save"}
  /\ \E c \in Callers :
       /\ Busy(c)
       /\ calls[c].op = "__init__"
       /\ calls[c].pc = "dir_exists"
       /\ calls[c].written = 0

\* C22 (as stated): an untyped get, and the re-fetch that ends a save, return a
\* model or absent whatever deletes and renames of the path run concurrently:
\* they never fail.
C22_AsStated ==
  (last.op \in {"get", "save"} /\ DistinctStamps(files))
     => last.result.kind \in {"model", "absent"}

\* two callers are inside saves of file models at the same path, and both
\* have uploaded: nothing is written to the stores until one of them returns,
\* so a get now sees what a get after both returns sees
Racing(c, d) ==
  /\ c # d
  /\ \A e \in {c, d} :
       /\ Busy(e)
       /\ calls[e].op = "save"
       /\ calls[e].args.model.type = "file"
       /\ calls[e].pc # "write"
  /\ normalize_path(calls[c].args.path) = normalize_path(calls[d].args.path)

\* the version a racing caller uploaded is still stored under the path, undeleted
Untouched(c) ==
  /\ files[calls[c].written].filename = normalize_path(calls[c].args.path)
  /\ ~files[calls[c].written].metadata.deleted

\* the text content of stored versions, as get returns it
TextOf(versions) ==
  {[tag |-> "text", val |-> Decode(files[k].content).val] : k \in versions}

\* C23 (as stated): after two concurrent saves of file models at p, with no
\* delete or rename of them, both versions are stored and get(p) returns the
\* content of the one with the greater upload timestamp.
C23_AsStated ==
  \A c, d \in Callers :
    (Racing(c, d) /\ Untouched(c) /\ Untouched(d) /\ DistinctStamps(files)) =>
      LET i == calls[c].written
          j == calls[d].written
      IN  /\ i # j
          /\ files[i].content = Encode(calls[c].args.model.content)
          /\ files[j].content = Encode(calls[d].args.model.content)
          /\ Contents(directories, files, calls[c].args.path)
               = TextOf({IF files[i].uploadDate > files[j].uploadDate THEN i ELSE j})

\* C23: two concurrent saves of file models at p each append a version, and
\* neither upload is lost; when p has no directory record, neither version was
\* deleted or renamed and no other version of p is as recent, get(p) returns
\* the content of the one with the greater upload timestamp (of either one
\* when they were uploaded in the same millisecond).
C23_ConcurrentSaves ==
  \A c, d \in Callers :
    Racing(c, d) =>
      LET i == calls[c].written
          j == calls[d].written
          path == normalize_path(calls[c].args.path)
      IN  /\ i # j
          /\ {i, j} \subseteq 1..Len(files)
          /\ files[i].content = Encode(calls[c].args.model.content)
          /\ files[j].content = Encode(calls[d].args.model.content)
          /\ ( /\ Untouched(c) /\ Untouched(d)
               /\ ~_dir_exists(directories, path)
               /\ Latest(files, path) \subseteq {i, j} )
             => Contents(directories, files, calls[c].args.path)
                  = TextOf(Latest(files, path))

\* both callers uploaded before either re-fetched, in different milliseconds
\* and with different contents, at a path that is no directory
C23_Witness ==
  \E c, d \in Callers :
    /\ Racing(c, d)
    /\ calls[c].pc = "dir_exists" /\ calls[d].pc = "dir_exists"
    /\ Untouched(c) /\ Untouched(d)
    /\ ~_dir_exists(directories, normalize_path(calls[c].args.path))
    /\ files[calls[c].written].uploadDate < files[calls[d].written].uploadDate
    /\ files[calls[c].written].content # files[calls[d].written].content

====
